---- MODULE Spec2Model ----
(***************************************************************************)
(* Model of generate-documents.js: the on-call report generator.  One run *)
(* of the program validates its arguments, derives the "since" date from  *)
(* the output folder, pages through the PagerDuty incidents, transforms    *)
(* them into spreadsheet rows and writes one CSV named by the clock.       *)
(*                                                                         *)
(* Time is counted in seconds since Sunday 2026-11-01 00:00:00 local time, *)
(* so that day-of-week and hour-of-day are computed from a timestamp the   *)
(* way moment computes them.  Strings that the program sorts, matches or   *)
(* parses (file names) are sequences of character codes.                   *)
(***************************************************************************)
EXTENDS Integers, Sequences, FiniteSets, TLC

VARIABLES
    clock,                \* the wall clock, in seconds
    output,               \* the ./output folder: file name -> [rows, writer]
    run_no,               \* how many runs have been started
    pc,                   \* where the current run is
    fault,                \* why the run ended early ("none" while it has not)
    start_date,           \* run(): start_date returned by validate_args
    page_num,             \* get_incidents: page_num
    more_pages,           \* get_incidents: more_pages
    incidents,            \* get_incidents: incidents (then run(): incidents)
    requests,             \* the page requests sent so far, in order
    pages,                \* the page bodies received so far, in order
    idx,                  \* process_incidents: position of forEach
    processed_incidents,  \* process_incidents: processed_incidents
    path                  \* create_csv: path

vars == <<clock, output, run_no, pc, fault, start_date, page_num, more_pages,
          incidents, requests, pages, idx, processed_incidents, path>>

-----------------------------------------------------------------------------
(* Program constants *)

DAYS_IN_WEEK == 7

MOMENT_SATURDAY == 6

MOMENT_SUNDAY == 0

LIMIT == 50

SecondsPerMinute == 60

MinutesPerHour == 60

SecondsPerHour == 3600

SecondsPerDay == 86400

-----------------------------------------------------------------------------
(* Arithmetic helpers *)

\* Math.ceil(a / b) for an integer a and a positive integer b
Ceil(a, b) == -((-a) \div b)

\* Math.max
Max(a, b) == IF a >= b THEN a ELSE b

\* moment(t).day(): 0 is Sunday, 6 is Saturday
DayOfWeek(t) == (t \div SecondsPerDay) % DAYS_IN_WEEK

\* moment(t).hour()
HourOfDay(t) == (t % SecondsPerDay) \div SecondsPerHour

\* moment(t).format("YYYY-MM-DD"), as <<year, month, day>>; the model's clock
\* stays inside November 2026
FormatDay(t) == <<2026, 11, 1 + (t \div SecondsPerDay)>>

\* moment(t).format("HH:mm:ss"), as <<hour, minute, second>>
FormatTime(t) == <<HourOfDay(t), (t % SecondsPerHour) \div SecondsPerMinute,
                   t % SecondsPerMinute>>

\* (minutes / 60).toFixed(2), as a count of hundredths (40 minutes: 67)
ToFixed2(minutes) == (minutes * 100 + 30) \div MinutesPerHour

-----------------------------------------------------------------------------
(* The hours-earned derivation *)

\* a slip: every urgency but 'low' taken for critical
get_incident_urgency_OnlyLowIsLow(urgency) ==
    IF urgency = "low" THEN "non-critical alarm" ELSE "critical alarm"

get_incident_urgency(urgency) ==
    IF urgency = "high" THEN "critical alarm"
    ELSE IF urgency = "low" THEN "non-critical alarm"
    ELSE "unknown"

\* timestamps are in seconds; Date.parse gives milliseconds
get_incident_duration(start_date_, end_date_) ==
    Ceil(end_date_ - start_date_, SecondsPerMinute)

\* a slip: the work day taken to start after 9 and to end before 17
IsWorkHours_Exclusive(start_hour, is_weekend) ==
    start_hour > 9 /\ start_hour < 17 /\ ~is_weekend

IsWorkHours(start_hour, is_weekend) ==
    start_hour >= 9 /\ start_hour <= 17 /\ ~is_weekend

IsLateNight(start_hour) == start_hour <= 4 \/ start_hour >= 22

\* a slip: one hour, not two, for each further hour
DurationBonus_Single(duration_hours) == Max(0, duration_hours - 1)

DurationBonus(duration_hours) == Max(0, (duration_hours - 1) * 2)

get_hours_earned(start_date_, end_date_, urgency) ==
    LET start_hour == HourOfDay(start_date_)
        duration_hours ==
            Ceil(get_incident_duration(start_date_, end_date_), MinutesPerHour)
        is_weekend == DayOfWeek(start_date_) \in {MOMENT_SATURDAY, MOMENT_SUNDAY}
    IN  IF get_incident_urgency(urgency) # "critical alarm" THEN 0
        ELSE IF IsWorkHours(start_hour, is_weekend) THEN 0
        ELSE 1 + (IF IsLateNight(start_hour) THEN 1 ELSE 0)
               + DurationBonus(duration_hours)

-----------------------------------------------------------------------------
(* process_incidents *)

\* An element of the incidents array that is the JavaScript value undefined
Undefined == [undefined |-> TRUE]

IsUndefined(x) == DOMAIN x = {"undefined"}

\* resolve_reason is "null", "undefined" (the property is absent) or the type
\* of the resolve reason object
\* a slip: every resolve reason taken for a merge
IsMerged_AnyReason(incident) ==
    incident.resolve_reason \notin {"null", "undefined"}

IsMerged(incident) == incident.resolve_reason = "merge_resolve_reason"

\* a slip: the service read with a guard, so that its absence does not throw
Throws_ServiceGuarded(incident) ==
    \/ IsUndefined(incident)
    \/ incident.resolve_reason = "undefined"
    \/ /\ incident.resolve_reason # "merge_resolve_reason"
       /\ incident.last_status_change_by = "undefined"

\* The property accesses of one forEach iteration that throw a TypeError
Throws(incident) ==
    \/ IsUndefined(incident)
    \/ incident.resolve_reason = "undefined"
    \/ /\ ~IsMerged(incident)
       /\ \/ incident.last_status_change_by = "undefined"
          \/ incident.service = "undefined"

Resolver(incident) ==
    IF incident.last_status_change_by = incident.service
    THEN "Auto-resolved"
    ELSE incident.last_status_change_by

\* a slip: four unused fields, not five
processed_incident_FourUnused(incident) ==
    << IF incident.last_status_change_by = incident.service
       THEN "Auto-resolved" ELSE incident.last_status_change_by,
       FormatDay(incident.created_at),
       FormatDay(incident.last_status_change_at),
       get_incident_urgency(incident.urgency),
       get_hours_earned(incident.created_at, incident.last_status_change_at,
                        incident.urgency),
       "null",
       FormatTime(incident.created_at),
       FormatTime(incident.last_status_change_at),
       ToFixed2(get_incident_duration(incident.created_at,
                                      incident.last_status_change_at)),
       "null", "null", "null", "null",
       incident.service,
       incident.title,
       incident.html_url >>

processed_incident(incident) ==
    << Resolver(incident),
       FormatDay(incident.created_at),
       FormatDay(incident.last_status_change_at),
       get_incident_urgency(incident.urgency),
       get_hours_earned(incident.created_at, incident.last_status_change_at,
                        incident.urgency),
       "null",
       FormatTime(incident.created_at),
       FormatTime(incident.last_status_change_at),
       ToFixed2(get_incident_duration(incident.created_at,
                                      incident.last_status_change_at)),
       "null", "null", "null", "null", "null",
       incident.service,
       incident.title,
       incident.html_url >>

-----------------------------------------------------------------------------
(* File names: sequences of character codes *)

Digits2(n) == <<48 + ((n \div 10) % 10), 48 + (n % 10)>>

Digits4(n) == <<48 + ((n \div 1000) % 10), 48 + ((n \div 100) % 10)>> \o Digits2(n)

\* moment().format("YYYY-MM-DD_HH:mm:ss")
FormatNow(t) ==
    LET d == FormatDay(t)
        h == FormatTime(t)
    IN  Digits4(d[1]) \o <<45>> \o Digits2(d[2]) \o <<45>> \o Digits2(d[3])
        \o <<95>>
        \o Digits2(h[1]) \o <<58>> \o Digits2(h[2]) \o <<58>> \o Digits2(h[3])

\* "-incidents.csv"
ReportSuffix == <<45, 105, 110, 99, 105, 100, 101, 110, 116, 115, 46, 99, 115, 118>>

\* ".csv"
CsvSuffix == <<46, 99, 115, 118>>

\* `${now}-incidents.csv`, the file name inside ./output
ReportName(t) == FormatNow(t) \o ReportSuffix

\* String.prototype.endsWith
EndsWith(name, suffix) ==
    /\ Len(name) >= Len(suffix)
    /\ SubSeq(name, Len(name) - Len(suffix) + 1, Len(name)) = suffix

\* a < b in the order of Array.prototype.sort (by code unit, a prefix first)
StringLess(a, b) ==
    \E i \in 1..(Len(a) + 1) :
        /\ i <= Len(b)
        /\ \A k \in 1..(i - 1) : a[k] = b[k]
        /\ (i = Len(a) + 1 \/ a[i] < b[i])

\* previous_files.sort(); previous_files.pop()
LatestFile(files) ==
    CHOOSE f \in files : \A g \in files \ {f} : StringLess(g, f)

\* The places where /-incidents.csv/ matches: the "." matches any character
MatchPlaces(name) ==
    { i \in 0..(Len(name) - Len(ReportSuffix)) :
        \A k \in 1..Len(ReportSuffix) :
            k = 11 \/ name[i + k] = ReportSuffix[k] }

\* latest_date.match(/(.*)-incidents.csv/): null, or the greedy group 1
MatchIsNull(name) == MatchPlaces(name) = {}

MatchGroup(name) ==
    LET i == CHOOSE p \in MatchPlaces(name) : \A q \in MatchPlaces(name) : q <= p
    IN  SubSeq(name, 1, i)

\* s.replace('_', ' '): the first "_" only
ReplaceUnderscore(s) ==
    IF \E i \in 1..Len(s) : s[i] = 95
    THEN LET i == CHOOSE p \in 1..Len(s) :
                      s[p] = 95 /\ \A q \in 1..(p - 1) : s[q] # 95
         IN  [k \in 1..Len(s) |-> IF k = i THEN 32 ELSE s[k]]
    ELSE s

IsDigit(c) == c >= 48 /\ c <= 57

Num2(s, i) == (s[i] - 48) * 10 + (s[i + 1] - 48)

InvalidDate == [valid |-> FALSE, time |-> 0]

DateOf(t) == [valid |-> TRUE, time |-> t]

\* new Date("YYYY-MM-DD HH:mm:ss") in local time; Invalid Date for a string
\* that is no date (the model's clock stays inside November 2026)
ParseDate(s) ==
    IF /\ Len(s) = 19
       /\ SubSeq(s, 1, 8) = Digits4(2026) \o <<45>> \o Digits2(11) \o <<45>>
       /\ \A i \in {9, 10, 12, 13, 15, 16, 18, 19} : IsDigit(s[i])
       /\ s[11] = 32 /\ s[14] = 58 /\ s[17] = 58
       /\ Num2(s, 9) >= 1 /\ Num2(s, 9) <= 30
       /\ Num2(s, 12) <= 23 /\ Num2(s, 15) <= 59 /\ Num2(s, 18) <= 59
    THEN DateOf((Num2(s, 9) - 1) * SecondsPerDay + Num2(s, 12) * SecondsPerHour
                + Num2(s, 15) * SecondsPerMinute + Num2(s, 18))
    ELSE InvalidDate

\* fs.readdirSync(CSV_FOLDER).filter(filename => filename.endsWith('.csv'))
PreviousFiles(folder) == { f \in DOMAIN folder : EndsWith(f, CsvSuffix) }

\* week_ago.setDate(week_ago.getDate() - DAYS_IN_WEEK)
WeekAgo(now) == DateOf(now - DAYS_IN_WEEK * SecondsPerDay)

-----------------------------------------------------------------------------
(* Bounds of the model *)

\* runs of the program in one behaviour
MaxRuns == 2

\* page requests of one run
MaxPages == 1

\* page requests when get_incidents is checked on its own
MaxPagerPages == 3

\* seconds the clock advances in one behaviour
MaxElapsed == 2

\* incidents handed to process_incidents when it is checked on its own
MaxIncidents == 2

\* incident durations when get_hours_earned is checked on its own: from
\* MaxEarly minutes before the creation to MaxMinutes minutes after it
MaxEarly == 61

MaxMinutes == 181

-----------------------------------------------------------------------------
(* Inputs *)

\* Monday 2026-11-02 08:59:59
ClockStart == 1 * SecondsPerDay + 8 * SecondsPerHour + 59 * SecondsPerMinute + 59

Incident(created, ended, urgency, reason, by, service, title, url) ==
    [ created_at |-> created, last_status_change_at |-> ended,
      urgency |-> urgency, resolve_reason |-> reason,
      last_status_change_by |-> by, service |-> service,
      title |-> title, html_url |-> url ]

\* An incident of the shape the API documents, 40 minutes long
Plain(reason, by, service, title, url) ==
    Incident(ClockStart - SecondsPerHour,
             ClockStart - SecondsPerHour + 40 * SecondsPerMinute,
             "high", reason, by, service, title, url)

\* The incidents a page of a whole run holds: a resolved one, a merged one,
\* one without service and one without title
RunIncidents ==
    { Plain("null", "alice", "db", "disk full", 1),
      Plain("merge_resolve_reason", "alice", "db", "disk full", 2),
      Plain("null", "alice", "undefined", "disk full", 3),
      Plain("null", "db", "db", "undefined", 4) }

Body(kind, has_incidents, list, more) ==
    [kind |-> kind, has_incidents |-> has_incidents, incidents |-> list,
     more |-> more]

\* What one request of a whole run can be answered with: a failed fetch or a
\* body that is not JSON ("error"), the JSON value null ("null"), or a JSON
\* object with or without its incidents and more members
RunBodies ==
    { Body("error", FALSE, <<>>, "undefined"),
      Body("null", FALSE, <<>>, "undefined") }
    \cup { Body("json", FALSE, <<>>, m) : m \in {"true", "false", "undefined"} }
    \cup { Body("json", TRUE, l, m) :
             l \in {<<>>} \cup { <<i>> : i \in RunIncidents },
             m \in {"true", "false", "undefined"} }

\* The pages the API answers the request at `offset` with: full pages, a
\* short page and an empty one; an incident created between two requests
\* shifts the listing by one, so a page can repeat the last incident of the
\* page before
PageSizes == {0, 12, LIMIT}

PagerBodies(offset) ==
    { Body("error", FALSE, <<>>, "undefined") }
    \cup { Body("json", TRUE,
                [k \in 1..n |-> Plain("null", "alice", "db", "disk full", base + k)],
                m) :
             n \in PageSizes, base \in {offset, Max(0, offset - 1)},
             m \in {"true", "false"} }

\* The elements process_incidents is checked on: every combination of a
\* present or an absent resolve_reason, resolver, service and title, and the
\* value undefined
ShapeIncidents ==
    { Plain(r, b, s, t, 1) :
        r \in {"null", "merge_resolve_reason", "timeout_resolve_reason", "undefined"},
        b \in {"alice", "db", "undefined"},
        s \in {"db", "undefined"},
        t \in {"disk full", "undefined"} }
    \cup {Undefined}

\* The urgencies get_hours_earned is checked on
Urgencies == {"high", "low", "medium"}

\* Files found in ./output that no run wrote: "notes.txt", "summary.csv",
\* "draft-incidents.csv"
NotesTxt == <<110, 111, 116, 101, 115, 46, 116, 120, 116>>

SummaryCsv == <<115, 117, 109, 109, 97, 114, 121>> \o CsvSuffix

DraftReport == <<100, 114, 97, 102, 116>> \o ReportSuffix

StrayFiles == {NotesTxt, SummaryCsv, DraftReport}

File(rows, writer) == [rows |-> rows, writer |-> writer]

-----------------------------------------------------------------------------
(* The state before a run *)

Idle ==
    /\ pc = "idle"
    /\ fault = "none"
    /\ start_date = InvalidDate
    /\ page_num = 0
    /\ more_pages = "true"
    /\ incidents = <<>>
    /\ requests = <<>>
    /\ pages = <<>>
    /\ idx = 1
    /\ processed_incidents = <<>>
    /\ path = <<>>

Init ==
    /\ clock = ClockStart
    /\ \E strays \in SUBSET StrayFiles : output = [f \in strays |-> File(<<>>, 0)]
    /\ run_no = 1
    /\ Idle

-----------------------------------------------------------------------------
(* run() *)

\* if (value): the truthiness of a value that is a boolean or undefined
Truthy(v) == v = "true"

Abort(reason) ==
    /\ pc' = "exit"
    /\ fault' = reason

\* validate_args, with the length of process.argv and whether readdirSync
\* can read ./output as inputs
validate_args ==
    /\ pc = "idle"
    /\ \E argc \in {2, 3, 4}, readable \in BOOLEAN :
         LET previous_files == PreviousFiles(output)
             latest_date == LatestFile(previous_files)
         IN  IF argc # 3
             THEN Abort("usage") /\ UNCHANGED start_date
             ELSE IF ~readable
             THEN Abort("readdir") /\ UNCHANGED start_date
             ELSE IF previous_files = {}
             THEN /\ start_date' = WeekAgo(clock)
                  /\ pc' = "validated"
                  /\ UNCHANGED fault
             ELSE IF MatchIsNull(latest_date)
             THEN Abort("match") /\ UNCHANGED start_date
             ELSE /\ start_date' = ParseDate(ReplaceUnderscore(MatchGroup(latest_date)))
                  /\ pc' = "validated"
                  /\ UNCHANGED fault
    /\ UNCHANGED <<clock, output, run_no, page_num, more_pages, incidents,
                   requests, pages, idx, processed_incidents, path>>

\* get_incidents: the initialisation of its locals
get_incidents ==
    /\ pc = "validated"
    /\ more_pages' = "true"
    /\ page_num' = 0
    /\ incidents' = <<>>
    /\ pc' = "fetch"
    /\ UNCHANGED <<clock, output, run_no, fault, start_date, requests, pages,
                   idx, processed_incidents, path>>

\* a slip: the page counted before it is requested
PageOffset_CountedFirst(n) == (n + 1) * LIMIT

PageOffset(n) == n * LIMIT

\* while (more_pages): get_incident_page sends the request
RequestPage(max_pages) ==
    /\ pc = "fetch"
    /\ Truthy(more_pages)
    /\ page_num < max_pages
    /\ requests' = Append(requests, [since |-> start_date,
                                     offset |-> PageOffset(page_num),
                                     limit |-> LIMIT])
    /\ pc' = "await"
    /\ UNCHANGED <<clock, output, run_no, fault, start_date, page_num,
                   more_pages, incidents, pages, idx, processed_incidents, path>>

\* Array.prototype.concat: an array is spread, any other value is appended
Concat(list, body) ==
    IF body.has_incidents THEN list \o body.incidents ELSE Append(list, Undefined)

\* The response arrives: the rest of the loop body
ReceivePage(bodies) ==
    /\ pc = "await"
    /\ \E body \in bodies :
         /\ pages' = Append(pages, body)
         /\ IF body.kind = "error"
            THEN Abort("fetch") /\ UNCHANGED <<incidents, more_pages, page_num>>
            ELSE IF body.kind = "null"
            THEN Abort("body") /\ UNCHANGED <<incidents, more_pages, page_num>>
            ELSE /\ incidents' = Concat(incidents, body)
                 /\ more_pages' = body.more
                 /\ page_num' = page_num + 1
                 /\ pc' = "fetch"
                 /\ UNCHANGED fault
    /\ UNCHANGED <<clock, output, run_no, start_date, requests, idx,
                   processed_incidents, path>>

\* The loop ends, get_incidents returns and process_incidents starts
ReturnIncidents ==
    /\ pc = "fetch"
    /\ ~Truthy(more_pages)
    /\ idx' = 1
    /\ processed_incidents' = <<>>
    /\ pc' = "process"
    /\ UNCHANGED <<clock, output, run_no, fault, start_date, page_num,
                   more_pages, incidents, requests, pages, path>>

\* One call of the forEach callback of process_incidents
ProcessIncident ==
    /\ pc = "process"
    /\ idx <= Len(incidents)
    /\ LET incident == incidents[idx]
       IN  IF Throws(incident)
           THEN Abort("incident") /\ UNCHANGED <<idx, processed_incidents>>
           ELSE /\ processed_incidents' =
                     IF IsMerged(incident)
                     THEN processed_incidents
                     ELSE Append(processed_incidents, processed_incident(incident))
                /\ idx' = idx + 1
                /\ UNCHANGED <<pc, fault>>
    /\ UNCHANGED <<clock, output, run_no, start_date, page_num, more_pages,
                   incidents, requests, pages, path>>

\* process_incidents returns and create_csv starts: it names the file
create_csv ==
    /\ pc = "process"
    /\ idx > Len(incidents)
    /\ path' = ReportName(clock)
    /\ pc' = "csv"
    /\ UNCHANGED <<clock, output, run_no, fault, start_date, page_num,
                   more_pages, incidents, requests, pages, idx,
                   processed_incidents>>

\* csv.writeRecords(incidents): the file at path is created or replaced
WriteFile(folder, name, rows, writer) ==
    [f \in DOMAIN folder \cup {name} |->
        IF f = name THEN File(rows, writer) ELSE folder[f]]

writeRecords ==
    /\ pc = "csv"
    /\ output' = WriteFile(output, path, processed_incidents, run_no)
    /\ pc' = "done"
    /\ UNCHANGED <<clock, run_no, fault, start_date, page_num, more_pages,
                   incidents, requests, pages, idx, processed_incidents, path>>

\* Time passes between two runs and while a request is awaited
Tick ==
    /\ pc \in {"idle", "await"}
    /\ clock < ClockStart + MaxElapsed
    /\ clock' = clock + 1
    /\ UNCHANGED <<output, run_no, pc, fault, start_date, page_num, more_pages,
                   incidents, requests, pages, idx, processed_incidents, path>>

\* The process has ended and the program is started again
NextRun ==
    /\ pc \in {"done", "exit"}
    /\ run_no < MaxRuns
    /\ run_no' = run_no + 1
    /\ pc' = "idle"
    /\ fault' = "none"
    /\ start_date' = InvalidDate
    /\ page_num' = 0
    /\ more_pages' = "true"
    /\ incidents' = <<>>
    /\ requests' = <<>>
    /\ pages' = <<>>
    /\ idx' = 1
    /\ processed_incidents' = <<>>
    /\ path' = <<>>
    /\ UNCHANGED <<clock, output>>

Next ==
    \/ validate_args
    \/ get_incidents
    \/ RequestPage(MaxPages)
    \/ ReceivePage(RunBodies)
    \/ ReturnIncidents
    \/ ProcessIncident
    \/ create_csv
    \/ writeRecords
    \/ Tick
    \/ NextRun

Spec == Init /\ [][Next]_vars

-----------------------------------------------------------------------------
(* get_incidents on its own, against an API that answers with whole pages *)

InitPages ==
    /\ clock = ClockStart
    /\ output = <<>>
    /\ run_no = 1
    /\ pc = "validated"
    /\ fault = "none"
    /\ start_date = WeekAgo(ClockStart)
    /\ page_num = 0
    /\ more_pages = "true"
    /\ incidents = <<>>
    /\ requests = <<>>
    /\ pages = <<>>
    /\ idx = 1
    /\ processed_incidents = <<>>
    /\ path = <<>>

NextPages ==
    \/ get_incidents
    \/ RequestPage(MaxPagerPages)
    \/ ReceivePage(PagerBodies(requests[Len(requests)].offset))
    \/ ReturnIncidents

SpecPages == InitPages /\ [][NextPages]_vars

-----------------------------------------------------------------------------
(* process_incidents on its own, on every short list of incidents *)

Lists(S, n) == UNION { [1..k -> S] : k \in 0..n }

ProcessStart(list) ==
    /\ clock = ClockStart
    /\ output = <<>>
    /\ run_no = 1
    /\ pc = "process"
    /\ fault = "none"
    /\ start_date = WeekAgo(ClockStart)
    /\ page_num = 1
    /\ more_pages = "false"
    /\ incidents = list
    /\ requests = <<>>
    /\ pages = <<>>
    /\ idx = 1
    /\ processed_incidents = <<>>
    /\ path = <<>>

InitProcess == \E list \in Lists(ShapeIncidents, MaxIncidents) : ProcessStart(list)

NextProcess ==
    \/ ProcessIncident
    \/ create_csv

SpecProcess == InitProcess /\ [][NextProcess]_vars

-----------------------------------------------------------------------------
(* get_hours_earned on its own: process_incidents on one incident created   *)
(* on the hour of any hour of the week Monday 2026-11-02 to Sunday          *)
(* 2026-11-08, or one second before the next hour, and resolved from        *)
(* MaxEarly minutes before to MaxMinutes minutes after, to the half minute  *)

InitHours ==
    \E d \in 1..DAYS_IN_WEEK, h \in 0..23, o \in {0, SecondsPerHour - 1},
       m \in (0 - MaxEarly)..MaxMinutes, s \in {0, 30}, u \in Urgencies :
        ProcessStart(<< Incident(d * SecondsPerDay + h * SecondsPerHour + o,
                                 d * SecondsPerDay + h * SecondsPerHour + o
                                     + m * SecondsPerMinute - s,
                                 u, "null", "alice", "db", "disk full", 1) >>)

NextHours == ProcessIncident

SpecHours == InitHours /\ [][NextHours]_vars

-----------------------------------------------------------------------------
(* Claims about get_hours_earned, under SpecHours *)

\* The one incident has been transformed into the one row
Transformed == pc = "process" /\ idx = 2 /\ Len(processed_incidents) = 1

TheIncident == incidents[1]

\* the claims' h, weekday and d
StartHour == HourOfDay(TheIncident.created_at)

OnWeekday == DayOfWeek(TheIncident.created_at) \in 1..5

Minutes ==
    Ceil(TheIncident.last_status_change_at - TheIncident.created_at,
         SecondsPerMinute)

\* the hours earned field of the row
Earned == processed_incidents[1][5]

OffHours == ~OnWeekday \/ StartHour < 9 \/ StartHour > 17

\* C1: an incident whose urgency is not 'high' earns 0 hours, at every start
\* hour, on every day of the week and for every duration, zero and negative
\* durations included.
C1_NonCriticalEarnsNothing ==
    (Transformed /\ TheIncident.urgency # "high") => Earned = 0

C1_Witness ==
    /\ Transformed
    /\ TheIncident.urgency = "medium"
    /\ DayOfWeek(TheIncident.created_at) = MOMENT_SATURDAY
    /\ StartHour = 23
    /\ Minutes = 150
    /\ Earned = 0

\* C2: a critical incident created on a weekday earns 0 hours exactly when its
\* start hour is in 9..17, both bounds included, whatever the duration; at
\* hours 8 and 18 of a weekday, and at every hour of a Saturday or a Sunday,
\* it earns at least 1.
C2_WorkHoursEarnNothing ==
    (Transformed /\ TheIncident.urgency = "high") =>
        IF OnWeekday
        THEN /\ (Earned = 0) <=> (9 <= StartHour /\ StartHour <= 17)
             /\ StartHour \in {8, 18} => Earned >= 1
        ELSE Earned >= 1

C2_Witness ==
    /\ Transformed
    /\ TheIncident.urgency = "high"
    /\ DayOfWeek(TheIncident.created_at) = 5
    /\ StartHour = 17
    /\ TheIncident.created_at % SecondsPerHour = SecondsPerHour - 1
    /\ Minutes = 150
    /\ Earned = 0

C4_HalfHourSteps ==
    (Transformed /\ TheIncident.urgency = "high" /\ OffHours) =>
        LET hour_long == get_hours_earned(TheIncident.created_at,
                                          TheIncident.created_at + SecondsPerHour,
                                          "high")
        IN  /\ (61 <= Minutes /\ Minutes <= 90) => Earned = hour_long + 1
            /\ (91 <= Minutes /\ Minutes <= 120) => Earned = hour_long + 2

-----------------------------------------------------------------------------
(* Claims about process_incidents, under SpecProcess *)

\* process_incidents is running or has returned
Transforming == pc \in {"process", "csv"} /\ fault = "none"

\* the incidents forEach has passed
Passed == SubSeq(incidents, 1, idx - 1)

MergeResolved(incident) == incident.resolve_reason = "merge_resolve_reason"

NotMergeResolved(incident) == ~MergeResolved(incident)

\* the incidents forEach has passed that are not merged, in input order
Kept == SelectSeq(Passed, NotMergeResolved)

\* C5: process_incidents emits no row for an incident whose resolve_reason is
\* non-null with type 'merge_resolve_reason' and exactly one row for every
\* other incident, in input order: the number of rows is the number of
\* incidents minus the number of merged ones.
C5_MergedDropped ==
    Transforming =>
        /\ Len(processed_incidents) =
             Len(Passed) - Cardinality({ k \in 1..Len(Passed) : MergeResolved(Passed[k]) })
        /\ Len(processed_incidents) = Len(Kept)
        /\ \A k \in 1..Len(Kept) :
             /\ processed_incidents[k][1] =
                  (IF Kept[k].last_status_change_by = Kept[k].service
                   THEN "Auto-resolved" ELSE Kept[k].last_status_change_by)
             /\ processed_incidents[k][Len(processed_incidents[k]) - 1] = Kept[k].title
             /\ processed_incidents[k][Len(processed_incidents[k])] = Kept[k].html_url

C5_Witness ==
    /\ pc = "csv"
    /\ Len(incidents) = 2
    /\ MergeResolved(incidents[1])
    /\ incidents[2].resolve_reason = "timeout_resolve_reason"
    /\ Len(processed_incidents) = 1
    /\ processed_incidents[1][1] = "Auto-resolved"

-----------------------------------------------------------------------------
(* Claims about get_incidents, under SpecPages *)

RECURSIVE Flatten(_)
\* the incidents of the pages, one page after the other
Flatten(bodies) ==
    IF bodies = <<>> THEN <<>>
    ELSE Flatten(SubSeq(bodies, 1, Len(bodies) - 1))
         \o bodies[Len(bodies)].incidents

PageLengths == [k \in 1..Len(pages) |-> Len(pages[k].incidents)]

PageFlags == [k \in 1..Len(pages) |-> pages[k].more]

\* get_incidents has returned
Returned == pc = "process"

\* C7: get_incidents requests the pages one at a time, at offsets 0, 50,
\* 100, ... with limit 50; it sends request k+1 only after the response to
\* request k has arrived with more = true and sends no request after the
\* first response with more = false; it returns the incidents of the pages
\* received, in request order, nothing re-sorted and nothing removed (pages
\* of 50, 50 and 12 incidents with more = true, true, false: 3 requests, 112
\* incidents); it returns if and only if a page reports more as false.
C7_Pagination ==
    /\ Len(requests) = Len(pages) + (IF pc = "await" THEN 1 ELSE 0)
    /\ \A k \in 1..Len(requests) :
         /\ requests[k].offset = (k - 1) * 50
         /\ requests[k].limit = 50
         /\ k > 1 => pages[k - 1].kind = "json" /\ pages[k - 1].more = "true"
    /\ (pc \in {"fetch", "process"} /\ fault = "none") =>
         /\ incidents = Flatten(pages)
         /\ page_num = Len(pages)
    /\ Returned =>
         /\ pages # <<>>
         /\ pages[Len(pages)].more = "false"
         /\ \A k \in 1..(Len(pages) - 1) : pages[k].more = "true"
    /\ (pc = "fetch" /\ pages # <<>> /\ pages[Len(pages)].more = "false") =>
         /\ ~ENABLED RequestPage(MaxPagerPages)
         /\ ENABLED ReturnIncidents
    /\ (pc = "fetch" /\ pages # <<>> /\ pages[Len(pages)].more = "true") =>
         ~ENABLED ReturnIncidents
    /\ (Returned /\ PageLengths = <<50, 50, 12>>) =>
         /\ Len(requests) = 3
         /\ Len(incidents) = 112

C7_Witness ==
    /\ Returned
    /\ PageLengths = <<50, 50, 12>>
    /\ PageFlags = <<"true", "true", "false">>
    /\ Len(requests) = 3
    /\ Len(incidents) = 112
    /\ incidents[50] = incidents[51]

-----------------------------------------------------------------------------
(* Claims about whole runs, under Spec *)

\* create_csv has been started
CsvStarted == pc \in {"csv", "done"}

\* the files of ./output that run r wrote
WrittenBy(r) == { f \in DOMAIN output : output[f].writer = r }

RECURSIVE Received(_)
\* what the concatenation of the bodies received gives
Received(bodies) ==
    IF bodies = <<>> THEN <<>>
    ELSE LET last == bodies[Len(bodies)]
             before == Received(SubSeq(bodies, 1, Len(bodies) - 1))
         IN  IF last.has_incidents THEN before \o last.incidents
             ELSE Append(before, Undefined)

\* a request failed, or its body has not the shape {incidents: [...], more: bool}
MisshapenBody(body) ==
    \/ body.kind # "json"
    \/ ~body.has_incidents
    \/ body.more \notin {"true", "false"}

\* an element of incidents without one of the fields process_incidents reads
LacksField(incident) ==
    \/ IsUndefined(incident)
    \/ incident.resolve_reason = "undefined"
    \/ incident.last_status_change_by = "undefined"
    \/ incident.service = "undefined"
    \/ incident.title = "undefined"

\* a request failed, or its body is no object with an incidents array
NoIncidentsArray(body) == body.kind # "json" \/ ~body.has_incidents

\* an element of incidents that is no object, has no resolve_reason, or is
\* not merged and has no last_status_change_by or no service
LacksDereferenced(incident) ==
    \/ IsUndefined(incident)
    \/ incident.resolve_reason = "undefined"
    \/ /\ incident.resolve_reason # "merge_resolve_reason"
       /\ \/ incident.last_status_change_by = "undefined"
          \/ incident.service = "undefined"

\* create_csv is started only after every page has been retrieved and every
\* incident transformed, and a run writes one file when it completes and
\* none when it does not
OneFileAtTheEnd ==
    /\ fault # "none" => pc = "exit"
    /\ CsvStarted =>
         /\ fault = "none"
         /\ Len(requests) = Len(pages)
         /\ pages # <<>>
         /\ pages[Len(pages)].more # "true"
         /\ incidents = Received(pages)
         /\ idx = Len(incidents) + 1
         /\ path = ReportName(clock)
    /\ pc = "done" =>
         /\ WrittenBy(run_no) = {path}
         /\ output[path].rows = processed_incidents
    /\ pc # "done" => WrittenBy(run_no) = {}

C9_NeverOverwrites ==
    [][ (pc = "csv" /\ pc' = "done") =>
          /\ path \notin DOMAIN output
          /\ DOMAIN output' = DOMAIN output \cup {path}
          /\ \A f \in DOMAIN output : output'[f] = output[f] ]_vars

\* the reports in the folder, by the second their name holds
ReportSeconds ==
    { t \in ClockStart..(ClockStart + MaxElapsed) : ReportName(t) \in DOMAIN output }

\* the since date the run is to start from
SinceOfFolder ==
    IF ReportSeconds = {} THEN DateOf(clock - 7 * 86400)
    ELSE DateOf(CHOOSE t \in ReportSeconds : \A u \in ReportSeconds : u <= t)

\* C10: a run with a valid argument starts from the date in the name of the
\* most recently dated "<date>-incidents.csv" report of the output folder,
\* and from 7 days before now when the folder holds no report; files of the
\* folder that do not match the report pattern neither change that date nor
\* abort the run.
C10_SinceFromLatestReport ==
    [][ (pc = "idle" /\ pc' # "idle" /\ fault' \notin {"usage", "readdir"}) =>
          /\ pc' = "validated"
          /\ start_date' = SinceOfFolder ]_vars

====
